---- MODULE Spec2Model ----
(***************************************************************************)
(* A model of the Brewery package manager (src/main.py): the metadata      *)
(* cache, the registry client, the dependency resolver, the install        *)
(* orchestrator with its download workers, and uninstall, upgrade and      *)
(* cleanup.                                                                *)
(*                                                                         *)
(* Python dicts are functions whose DOMAIN is the set of keys; Optional    *)
(* values are sequences of length 0 (None) or 1.  Paths are tuples:        *)
(* <<p, v>> is Cellar/<p>/<v> (and <p>_<v>.tar.gz in the base directory),  *)
(* <<p, v, e>> is Cellar/<p>/<v>/bin/<e>, and an executable name e stands  *)
(* for the path bin/<e> in the shared bin directory.                       *)
(***************************************************************************)
EXTENDS Integers, Sequences, FiniteSets, TLC

VARIABLES
    registry,        \* upstream: package -> current stable version
    deps,            \* upstream: package -> list of its dependencies
    now,             \* time.time(), in seconds
    metadata_cache,  \* rows of cache/metadata.db: package -> [data, cached_at, ttl_hours]
    inventory_file,  \* the document in inventory.json
    cellar,          \* Cellar: <<p, v>> -> extracted payload
    bin_dir,         \* bin/: executable name -> target of the symlink
    tarballs,        \* <p>_<v>.tar.gz files in the base directory: <<p, v>> -> bytes
    inventory,       \* Brewery.inventory of the running process
    dep_cache,       \* Brewery._dep_resolution_cache of the running process
    sha_memo,        \* the lru_cache of Brewery._verify_sha256: <<path, sha>> -> bool
    workers,         \* the futures of the running install: package -> worker state
    call,            \* the API call in progress (or the last one) and what it decided
    pre,             \* the disk and the inventory as they were when that call began
    faults,          \* workers so far that met a failing or damaged network answer,
                     \* or a peer racing for a link
    saves            \* _save_inventory calls of concurrent processes, and the bytes
                     \* of inventory.json they write

vars == <<registry, deps, now, metadata_cache, inventory_file, cellar, bin_dir,
          tarballs, inventory, dep_cache, sha_memo, workers, call, pre, faults,
          saves>>

----------------------------------------------------------------------------
(* Bounds of the model *)

Pkgs == {"a", "b", "c"}

\* API calls (install, uninstall, upgrade, cleanup) made in one behaviour
MaxCalls == 3

\* how many times upstream publishes a new stable version of some package
MaxBumps == 1

\* length of the lists of package names handed to uninstall, and to install
\* in SpecInstall
MaxNames == 2

\* length of the lists of package names handed to install in Spec
MaxRoots == 1

\* workers in one behaviour that meet a failing or damaged network answer,
\* or a peer racing for a link
MaxFaults == 1

\* install calls made in one behaviour of SpecInstall
MaxInstalls == 2

\* cache and registry-client calls made in one behaviour of SpecCache
MaxCacheOps == 3

\* times the clock is read later than before in one behaviour of SpecCache
MaxTicks == 3

\* saves of the inventory one process makes in one behaviour of SpecSave
MaxSaves == 2

\* length of a JSON document in blocks of the size of the file buffer
MaxBlocks == 2

----------------------------------------------------------------------------
(* Program constants *)

CACHE_TTL_HOURS == 6

RETRY_ATTEMPTS == 3

RETRY_DELAY == 2

SecondsPerHour == 3600

OS_FLAVOR == "x86_64_linux"

UserRequest == "User Request"

----------------------------------------------------------------------------
(* Generic helpers *)

None == << >>

Some(x) == << x >>

EmptyMap == << >>

Put(f, k, v) == [x \in DOMAIN f \cup {k} |-> IF x = k THEN v ELSE f[x]]

Drop(f, S) == [x \in DOMAIN f \ S |-> f[x]]

SeqsUpTo(S, n) == UNION {[1..k -> S] : k \in 1..n}

Range(s) == {s[i] : i \in DOMAIN s}

----------------------------------------------------------------------------
(* Upstream: the formulae API and the bottles it points at *)

\* The dependency graph served in Spec: a needs b and c.
MainGraph == [p \in Pkgs |-> IF p = "a" THEN <<"b", "c">> ELSE << >>]

\* Further graphs served in SpecInstall: a chain, a diamond with a shortcut,
\* and a cycle with a self-dependency.
ChainGraph == [p \in Pkgs |-> CASE p = "a" -> <<"b">>
                                [] p = "b" -> <<"c">>
                                [] OTHER   -> << >>]

DiamondGraph == [p \in Pkgs |-> CASE p = "a" -> <<"b", "c">>
                                  [] p = "b" -> <<"c">>
                                  [] OTHER   -> << >>]

CycleGraph == [p \in Pkgs |-> CASE p = "a" -> <<"b">>
                                [] p = "b" -> <<"a", "c">>
                                [] OTHER   -> <<"c">>]

Graphs == {ChainGraph, DiamondGraph, CycleGraph}

\* The executables a bottle ships in bin/: a and b both ship "tool".
Exes == [p \in Pkgs |-> IF p = "a" THEN <<"a", "tool">> ELSE <<"tool">>]

\* Whether upstream built a bottle of p at v for this OS flavor: c has none.
HasBottle(p, v) == p # "c"

\* The bytes of a tarball: the genuine bottle of p at v, a tampered or
\* damaged one, or the torso a broken stream leaves behind.
Bottle(p, v, kind) == <<p, v, kind>>

\* hashlib.sha256 over the bytes: one digest per content.
Sha256Hex(bytes) == <<"sha256", bytes>>

\* The JSON the formulae API serves for p at stable version v.
Metadata(p, v) ==
    [name         |-> p,
     version      |-> v,
     dependencies |-> deps[p],
     files        |-> IF ~HasBottle(p, v) THEN EmptyMap
                      ELSE [f \in {OS_FLAVOR} |->
                              [url    |-> <<p, v>>,
                               sha256 |-> Sha256Hex(Bottle(p, v, "ok"))]]]

----------------------------------------------------------------------------
(* MetadataCache *)

\* Mutant of CacheGet: a row whose age equals its TTL is still served.
CacheGetInclusive(cache, name, t) ==
    IF name \notin DOMAIN cache
    THEN [data |-> None, cache |-> cache]
    ELSE IF t - cache[name].cached_at <= cache[name].ttl_hours * SecondsPerHour
         THEN [data |-> Some(cache[name].data), cache |-> cache]
         ELSE [data |-> None, cache |-> Drop(cache, {name})]

\* MetadataCache.get: the row's data if its age is below its TTL; an expired
\* row is deleted.  (time.time() - cached_at) / 3600 < ttl_hours, without the
\* division.
CacheGet(cache, name, t) ==
    IF name \notin DOMAIN cache
    THEN [data |-> None, cache |-> cache]
    ELSE IF t - cache[name].cached_at < cache[name].ttl_hours * SecondsPerHour
         THEN [data |-> Some(cache[name].data), cache |-> cache]
         ELSE [data |-> None, cache |-> Drop(cache, {name})]

\* MetadataCache.set: INSERT OR REPLACE
CacheSet(cache, name, data, t, ttl) ==
    Put(cache, name, [data |-> data, cached_at |-> t, ttl_hours |-> ttl])

\* MetadataCache.invalidate
CacheInvalidate(cache, name) == Drop(cache, {name})

\* MetadataCache.clear_expired
CacheClearExpired(cache, t) ==
    Drop(cache, {n \in DOMAIN cache :
                    t - cache[n].cached_at >= cache[n].ttl_hours * SecondsPerHour})

----------------------------------------------------------------------------
(* Registry client: Brewery._get_api_data *)

\* What the network does to the attempts of one request: the HTTP status of
\* each attempt, or "timeout" / "error" when the attempt raises.
Answered == << "200" >>

Unreachable == << "timeout", "503", "error" >>

\* The retry loop: the index of the attempt that ends it with a 200, 0 when
\* it ends with a 404 or runs out of attempts.
RECURSIVE FetchLoop(_, _)
FetchLoop(script, attempt) ==
    IF attempt > RETRY_ATTEMPTS \/ attempt > Len(script) THEN 0
    ELSE IF script[attempt] = "200" THEN attempt
    ELSE IF script[attempt] = "404" THEN 0
    ELSE FetchLoop(script, attempt + 1)

\* _get_api_data(pkg_name, force_refresh): [data, cache, net], net telling
\* whether the network was asked.
GetApiData(cache, name, force, script, t) ==
    LET hit == IF force THEN [data |-> None, cache |-> cache]
               ELSE CacheGet(cache, name, t)
    IN  IF hit.data # None
        THEN [data |-> hit.data, cache |-> hit.cache, net |-> FALSE]
        ELSE IF FetchLoop(script, 1) > 0
             THEN [data  |-> Some(Metadata(name, registry[name])),
                   cache |-> CacheSet(hit.cache, name,
                                      Metadata(name, registry[name]), t,
                                      CACHE_TTL_HOURS),
                   net   |-> TRUE]
             ELSE [data |-> None, cache |-> hit.cache, net |-> TRUE]

----------------------------------------------------------------------------
(* Resolver: Brewery._resolve_graph *)

\* The state one resolution threads through its recursion: the caller's
\* resolution_map, the session memo, the metadata cache, the package whose
\* missing metadata raised (if any), and the requests made to _get_api_data.
ResolveState(memo, cache) ==
    [res_map |-> EmptyMap, memo |-> memo, cache |-> cache,
     err |-> None, asked |-> << >>]

\* The loop of the memo branch: each direct dependency that is in the memo
\* and not yet in the map is copied into the map.
RECURSIVE AddCachedDeps(_, _, _, _)
AddCachedDeps(res_map, memo, ds, i) ==
    IF i > Len(ds) THEN res_map
    ELSE AddCachedDeps(IF ds[i] \in DOMAIN memo /\ ds[i] \notin DOMAIN res_map
                       THEN Put(res_map, ds[i], memo[ds[i]])
                       ELSE res_map,
                       memo, ds, i + 1)

RECURSIVE ResolveGraph(_, _, _, _, _)
RECURSIVE ResolveEach(_, _, _, _, _, _)

\* Mutant of ResolveGraph: the session memo is not looked at; what stops a
\* second visit is the plan alone, which is looked at after the request.
ResolveGraphNoMemo(pkg_name, parent_name, st, net, t) ==
    LET r   == GetApiData(st.cache, pkg_name, FALSE, net[pkg_name], t)
        st1 == [st EXCEPT !.cache = r.cache,
                          !.asked = Append(st.asked, pkg_name)]
    IN  IF r.data = None
        THEN [st1 EXCEPT !.err = Some(pkg_name)]
        ELSE IF pkg_name \in DOMAIN st1.res_map
             THEN st1
             ELSE LET result == [version      |-> r.data[1].version,
                                 requested_by |-> parent_name,
                                 dependencies |-> r.data[1].dependencies]
                  IN  ResolveEach(r.data[1].dependencies, 1, pkg_name,
                                  [st1 EXCEPT
                                     !.res_map = Put(st1.res_map, pkg_name, result),
                                     !.memo    = Put(st1.memo, pkg_name, result)],
                                  net, t)

\* _resolve_graph(pkg_name, parent_name, res_map); net[p] is what the network
\* does when p's metadata is requested, t the time.  A raised exception
\* (st.err) ends every enclosing loop.
ResolveGraph(pkg_name, parent_name, st, net, t) ==
    IF pkg_name \in DOMAIN st.memo
    THEN IF pkg_name \notin DOMAIN st.res_map
         THEN [st EXCEPT !.res_map =
                  AddCachedDeps(Put(st.res_map, pkg_name, st.memo[pkg_name]),
                                st.memo, st.memo[pkg_name].dependencies, 1)]
         ELSE st
    ELSE LET r   == GetApiData(st.cache, pkg_name, FALSE, net[pkg_name], t)
             st1 == [st EXCEPT !.cache = r.cache,
                               !.asked = Append(st.asked, pkg_name)]
         IN  IF r.data = None
             THEN [st1 EXCEPT !.err = Some(pkg_name)]
             ELSE IF pkg_name \in DOMAIN st1.res_map
                  THEN st1
                  ELSE LET result == [version      |-> r.data[1].version,
                                      requested_by |-> parent_name,
                                      dependencies |-> r.data[1].dependencies]
                       IN  ResolveEach(r.data[1].dependencies, 1, pkg_name,
                                       [st1 EXCEPT
                                          !.res_map = Put(st1.res_map, pkg_name, result),
                                          !.memo    = Put(st1.memo, pkg_name, result)],
                                       net, t)

\* for name in names: self._resolve_graph(name, parent_name, res_map)
ResolveEach(names, i, parent_name, st, net, t) ==
    IF i > Len(names) \/ st.err # None THEN st
    ELSE ResolveEach(names, i + 1, parent_name,
                     ResolveGraph(names[i], parent_name, st, net, t), net, t)

\* The resolution of install: every root is walked with parent "User Request";
\* an exception ends the loop.
Resolve(pkg_names, memo, cache, net, t) ==
    ResolveEach(pkg_names, 1, UserRequest, ResolveState(memo, cache), net, t)

----------------------------------------------------------------------------
(* Install orchestrator: Brewery.install *)

\* Mutant of ToFetch: force is ignored and the installed packages are never
\* fetched again.
ToFetchUnforced(resolution_map, force, inv) ==
    {name \in DOMAIN resolution_map : name \notin DOMAIN inv}

\* Mutant of ToFetch: the inventory is ignored and the whole plan is fetched.
ToFetchAll(resolution_map, force, inv) == DOMAIN resolution_map

\* to_fetch: the whole plan under force, else the plan packages that are not
\* in the inventory.
ToFetch(resolution_map, force, inv) ==
    IF force THEN DOMAIN resolution_map
    ELSE {name \in DOMAIN resolution_map : name \notin DOMAIN inv}

\* Mutant of InstallSet: the exception of the resolver is swallowed and the
\* part of the plan that was resolved is installed.
InstallSetDespiteError(res, force, inv) == ToFetch(res.res_map, force, inv)

\* The packages install submits to the pool: none when resolution raised.
InstallSet(res, force, inv) ==
    IF res.err # None THEN {} ELSE ToFetch(res.res_map, force, inv)

NoWorker == [pc |-> "idle", version |-> 0, data |-> None, got |-> None,
             links |-> << >>, why |-> ""]

Submitted(version) == [NoWorker EXCEPT !.pc = "start", !.version = version]

Idle == \A p \in Pkgs : workers[p].pc = "idle"

Snapshot == [inventory |-> inventory, cellar |-> cellar, bin_dir |-> bin_dir,
             tarballs |-> tarballs]

\* No process is saving the inventory; inventory.json as a sequence of
\* written blocks is not looked at.
NoSaves == [file |-> << >>, lock |-> None, proc |-> EmptyMap]

NoCall == [n |-> 0, op |-> "none", names |-> << >>, force |-> FALSE,
           plan |-> EmptyMap, to_fetch |-> {},
           committed |-> {}, prompted |-> FALSE, outcome |-> "none"]

\* install(pkg_names, force) up to the submission of the workers, starting
\* from metadata cache `cache`; op names the command that made the call.
InstallStart(op, pkg_names, force, cache, net) ==
    LET res      == Resolve(pkg_names, dep_cache, cache, net, now)
        to_fetch == InstallSet(res, force, inventory)
    IN  /\ dep_cache' = res.memo
        /\ metadata_cache' = res.cache
        /\ pre' = Snapshot
        /\ workers' = [p \in Pkgs |-> IF p \in to_fetch
                                      THEN Submitted(res.res_map[p].version)
                                      ELSE workers[p]]
        /\ call' = [n |-> call.n + 1, op |-> op, names |-> pkg_names,
                    force |-> force, plan |-> res.res_map,
                    to_fetch |-> to_fetch, committed |-> {}, prompted |-> FALSE,
                    outcome |-> IF res.err # None THEN "resolution_error"
                                ELSE IF to_fetch = {} THEN "nothing_to_do"
                                ELSE "running"]
        /\ UNCHANGED <<registry, deps, now, inventory_file, cellar, bin_dir,
                       tarballs, inventory, sha_memo, faults, saves>>

\* What the network does during one resolution.  Resolution ends with the
\* first request that fails, so one unreachable package is as much as a
\* resolution can meet.
NetChoices ==
    {[p \in Pkgs |-> IF p \in F THEN Unreachable ELSE Answered] :
        F \in {{}} \cup {{q} : q \in Pkgs}}

\* What the network does when every package of S is asked for once.
NetFailing(S) ==
    {[p \in Pkgs |-> IF p \in F THEN Unreachable ELSE Answered] :
        F \in SUBSET S}

Install ==
    /\ Idle
    /\ call.n < MaxCalls
    /\ \E pkg_names \in SeqsUpTo(Pkgs, MaxRoots), force \in BOOLEAN,
          net \in NetChoices :
          InstallStart("install", pkg_names, force, metadata_cache, net)

----------------------------------------------------------------------------
(* Download worker: Brewery._download_and_extract_worker *)

\* The worker's local paths: tmp_file and final_pkg_dir.
TmpFile(pkg, version) == <<pkg, version>>

FinalPkgDir(pkg, version) == <<pkg, version>>

\* What the token request does: a token, a response without one, or an
\* exception.
TokenOutcomes == {"granted", "missing", "error"}

\* What the network does to the download attempts: "ok" streams the whole
\* bottle, "bad" streams other bytes to the end, "refused" fails before the
\* output file is opened, "broken" fails in mid-stream.
DownloadScripts == { <<"ok", "ok", "ok">>,
                     <<"bad", "ok", "ok">>,
                     <<"broken", "refused", "ok">>,
                     <<"refused", "broken", "broken">> }

\* Without a token every attempt is answered 401.
Unauthorized == <<"refused", "refused", "refused">>

\* The download loop on tmp_file (file: its bytes, if it exists): open(…, 'wb')
\* truncates; the last failed attempt raises.
RECURSIVE DownloadLoop(_, _, _, _)
DownloadLoop(file, url, script, attempt) ==
    IF script[attempt] \in {"ok", "bad"}
    THEN [file |-> Some(Bottle(url[1], url[2], script[attempt])), done |-> TRUE]
    ELSE LET left == IF script[attempt] = "broken"
                     THEN Some(Bottle(url[1], url[2], "partial"))
                     ELSE file
         IN  IF attempt < RETRY_ATTEMPTS
             THEN DownloadLoop(left, url, script, attempt + 1)
             ELSE [file |-> left, done |-> FALSE]

\* _verify_sha256 under lru_cache: a key seen before answers from the memo.
VerifySha256(memo, file_path, expected_sha, files) ==
    IF <<file_path, expected_sha>> \in DOMAIN memo
    THEN [ok |-> memo[<<file_path, expected_sha>>], memo |-> memo]
    ELSE [ok   |-> Sha256Hex(files[file_path]) = expected_sha,
          memo |-> Put(memo, <<file_path, expected_sha>>,
                       Sha256Hex(files[file_path]) = expected_sha)]

\* The executables found in bin/ of an extracted payload.
ExesOf(payload) == Exes[payload[1]]

\* Mutant of LinkEach: a name that is taken in bin/ is left as it is.
RECURSIVE LinkEachKeep(_, _, _, _)
LinkEachKeep(bin, final_pkg_dir, exes, i) ==
    IF i > Len(exes) THEN bin
    ELSE LinkEachKeep(IF exes[i] \in DOMAIN bin THEN bin
                      ELSE Put(bin, exes[i],
                               <<final_pkg_dir[1], final_pkg_dir[2], exes[i]>>),
                      final_pkg_dir, exes, i + 1)

\* The link loop: whatever is at bin/<exe> is unlinked and replaced.
RECURSIVE LinkEach(_, _, _, _)
LinkEach(bin, final_pkg_dir, exes, i) ==
    IF i > Len(exes) THEN bin
    ELSE LinkEach(Put(bin, exes[i],
                      <<final_pkg_dir[1], final_pkg_dir[2], exes[i]>>),
                  final_pkg_dir, exes, i + 1)

Pc(p) == workers[p].pc

\* Mutant of BottleFor: without a bottle for this OS flavor the worker goes
\* on with a bottle entry it makes up from the package's name and version.
BottleForAny(data) ==
    IF OS_FLAVOR \in DOMAIN data.files THEN Some(data.files[OS_FLAVOR])
    ELSE Some([url    |-> <<data.name, data.version>>,
               sha256 |-> Sha256Hex(Bottle(data.name, data.version, "ok"))])

\* Line 529: data['bottle']['stable']['files'].get(OS_FLAVOR)
BottleFor(data) ==
    IF OS_FLAVOR \in DOMAIN data.files THEN Some(data.files[OS_FLAVOR]) ELSE None

\* Lines 524-594: the worker's own metadata request, the bottle lookup, the
\* token request, the download attempts, the verification (a mismatch unlinks
\* the tarball and raises) and the extraction (the version directory is
\* removed and made anew, the payload moved into it, the tarball unlinked).
\* All of it reads and writes only what no other thread of the run touches:
\* this package's cache row, this worker's tmp_file, memo key and version
\* directory.
WorkerRun(p) ==
    /\ Pc(p) = "start"
    /\ \E meta \in {Answered, Unreachable}, token \in TokenOutcomes,
          script \in DownloadScripts :
          LET m        == GetApiData(metadata_cache, p, FALSE, meta, now)
              tmp_file == TmpFile(p, workers[p].version)
              found    == BottleFor(m.data[1])
              bottle   == found[1]
              file     == IF tmp_file \in DOMAIN tarballs
                          THEN Some(tarballs[tmp_file]) ELSE None
              d        == DownloadLoop(file, bottle.url,
                                       IF token = "missing" THEN Unauthorized
                                       ELSE script, 1)
              files    == IF d.file = None THEN tarballs
                          ELSE Put(tarballs, tmp_file, d.file[1])
              v        == VerifySha256(sha_memo, tmp_file, bottle.sha256, files)
              clean    == /\ meta = Answered
                          /\ token = "granted"
                          /\ script = <<"ok", "ok", "ok">>
          IN  /\ clean \/ faults < MaxFaults
              /\ faults' = IF clean THEN faults ELSE faults + 1
              /\ metadata_cache' = m.cache
              /\ IF m.data = None
                 THEN /\ workers' = [workers EXCEPT ![p].pc = "none",
                                                    ![p].why = "no metadata"]
                      /\ UNCHANGED <<tarballs, sha_memo, cellar>>
                 ELSE IF found = None
                 THEN /\ workers' = [workers EXCEPT ![p].pc = "none",
                                                    ![p].why = "no bottle"]
                      /\ UNCHANGED <<tarballs, sha_memo, cellar>>
                 ELSE IF token = "error"
                 THEN /\ workers' = [workers EXCEPT ![p].pc = "raised",
                                                    ![p].why = "token"]
                      /\ UNCHANGED <<tarballs, sha_memo, cellar>>
                 ELSE IF ~d.done
                 THEN /\ workers' = [workers EXCEPT ![p].pc = "raised",
                                                    ![p].why = "download"]
                      /\ tarballs' = files
                      /\ UNCHANGED <<sha_memo, cellar>>
                 ELSE /\ sha_memo' = v.memo
                      /\ tarballs' = Drop(files, {tmp_file})
                      /\ IF v.ok
                         THEN /\ workers' = [workers EXCEPT
                                    ![p].pc = "link", ![p].data = m.data,
                                    ![p].got = d.file]
                              /\ cellar' = Put(cellar,
                                               FinalPkgDir(p, workers[p].version),
                                               files[tmp_file])
                         ELSE /\ workers' = [workers EXCEPT
                                    ![p].pc = "raised", ![p].why = "sha256",
                                    ![p].data = m.data, ![p].got = d.file]
                              /\ UNCHANGED cellar
    /\ UNCHANGED <<registry, deps, now, inventory_file, bin_dir, inventory,
                   dep_cache, call, pre, saves>>

\* Lines 596-612: the executables are linked into bin/ and the result returned.
WorkerLink(p) ==
    /\ Pc(p) = "link"
    /\ LET final_pkg_dir == FinalPkgDir(p, workers[p].version)
           exes == ExesOf(cellar[final_pkg_dir])
       IN  /\ bin_dir' = LinkEach(bin_dir, final_pkg_dir, exes, 1)
           /\ workers' = [workers EXCEPT ![p].pc = "ok", ![p].links = exes]
    /\ UNCHANGED <<registry, deps, now, metadata_cache, inventory_file, cellar,
                   tarballs, inventory, dep_cache, sha_memo, call, pre, faults, saves>>

\* Lines 601-609 when another worker of the run is linking at the same time
\* and ships an executable of the same name: between this worker's test of
\* bin/<exe> and its unlink or symlink_to the other worker removes or creates
\* the link, and the call raises (FileNotFoundError, FileExistsError).  The
\* links made for the names before it stay.
WorkerLinkRaced(p) ==
    /\ Pc(p) = "link"
    /\ faults < MaxFaults
    /\ faults' = faults + 1
    /\ LET final_pkg_dir == FinalPkgDir(p, workers[p].version)
           exes == ExesOf(cellar[final_pkg_dir])
       IN  \E q \in Pkgs \ {p}, i \in DOMAIN exes :
              /\ Pc(q) = "link"
              /\ exes[i] \in Range(ExesOf(cellar[FinalPkgDir(q, workers[q].version)]))
              /\ bin_dir' = LinkEach(bin_dir, final_pkg_dir, SubSeq(exes, 1, i - 1), 1)
              /\ workers' = [workers EXCEPT ![p].pc = "raised", ![p].why = "link"]
    /\ UNCHANGED <<registry, deps, now, metadata_cache, inventory_file, cellar,
                   tarballs, inventory, dep_cache, sha_memo, call, pre, saves>>

\* Mutant of Collect: the exception of a failed worker leaves install, and
\* the results of the other workers are dropped.
CollectAborting(p) ==
    /\ Pc(p) \in {"ok", "none", "raised"}
    /\ IF Pc(p) = "ok"
       THEN /\ inventory' = Put(inventory, p,
                                [version  |-> workers[p].version,
                                 path     |-> FinalPkgDir(p, workers[p].version),
                                 symlinks |-> workers[p].links])
            /\ inventory_file' = inventory'
       ELSE UNCHANGED <<inventory, inventory_file>>
    /\ workers' = IF Pc(p) = "raised" THEN [q \in Pkgs |-> NoWorker]
                  ELSE [workers EXCEPT ![p] = NoWorker]
    /\ call' = [call EXCEPT
                  !.committed = IF Pc(p) = "ok" THEN @ \cup {p} ELSE @,
                  !.outcome = IF Pc(p) = "raised" \/
                                 \A q \in Pkgs \ {p} : Pc(q) = "idle"
                              THEN "returned" ELSE @]
    /\ UNCHANGED <<registry, deps, now, metadata_cache, cellar, bin_dir,
                   tarballs, dep_cache, sha_memo, pre, faults, saves>>

\* Mutant of Collect: the inventory is saved once, after the last future.
CollectBatched(p) ==
    /\ Pc(p) \in {"ok", "none", "raised"}
    /\ inventory' = IF Pc(p) = "ok"
                    THEN Put(inventory, p,
                             [version  |-> workers[p].version,
                              path     |-> FinalPkgDir(p, workers[p].version),
                              symlinks |-> workers[p].links])
                    ELSE inventory
    /\ inventory_file' = IF \A q \in Pkgs \ {p} : Pc(q) = "idle"
                         THEN inventory' ELSE inventory_file
    /\ workers' = [workers EXCEPT ![p] = NoWorker]
    /\ call' = [call EXCEPT
                  !.committed = IF Pc(p) = "ok" THEN @ \cup {p} ELSE @,
                  !.outcome = IF \A q \in Pkgs \ {p} : Pc(q) = "idle"
                              THEN "returned" ELSE @]
    /\ UNCHANGED <<registry, deps, now, metadata_cache, cellar, bin_dir,
                   tarballs, dep_cache, sha_memo, pre, faults, saves>>

\* Lines 507-519: the coordinator takes a finished future; a result is
\* written to the inventory and the inventory is saved.  With the last
\* future install returns.
Collect(p) ==
    /\ Pc(p) \in {"ok", "none", "raised"}
    /\ IF Pc(p) = "ok"
       THEN /\ inventory' = Put(inventory, p,
                                [version  |-> workers[p].version,
                                 path     |-> FinalPkgDir(p, workers[p].version),
                                 symlinks |-> workers[p].links])
            /\ inventory_file' = inventory'
       ELSE UNCHANGED <<inventory, inventory_file>>
    /\ workers' = [workers EXCEPT ![p] = NoWorker]
    /\ call' = [call EXCEPT
                  !.committed = IF Pc(p) = "ok" THEN @ \cup {p} ELSE @,
                  !.outcome = IF \A q \in Pkgs \ {p} : Pc(q) = "idle"
                              THEN "returned" ELSE @]
    /\ UNCHANGED <<registry, deps, now, metadata_cache, cellar, bin_dir,
                   tarballs, dep_cache, sha_memo, pre, faults, saves>>

----------------------------------------------------------------------------
(* Brewery.uninstall *)

\* Mutant of ToRemove: the names are not checked against the inventory.
ToRemoveAll(pkg_names, inv) == pkg_names

\* to_remove: the named packages that are in the inventory, in the order and
\* as often as they are named.
ToRemove(pkg_names, inv) == SelectSeq(pkg_names, LAMBDA p : p \in DOMAIN inv)

\* Mutant of UninstallOne: the symlinks are left in bin/.
UninstallOneKeepLinks(st, pkg_name) ==
    [inv    |-> Drop(st.inv, {pkg_name}),
     file   |-> Drop(st.inv, {pkg_name}),
     cellar |-> Drop(st.cellar, {d \in DOMAIN st.cellar : d[1] = pkg_name}),
     bin    |-> st.bin,
     cache  |-> CacheInvalidate(st.cache, pkg_name),
     raised |-> FALSE]

\* One round of the removal loop: the listed symlinks are unlinked,
\* Cellar/<pkg_name> is removed, the cache row is invalidated, the inventory
\* entry is deleted and the inventory saved.
UninstallOne(st, pkg_name) ==
    [inv    |-> Drop(st.inv, {pkg_name}),
     file   |-> Drop(st.inv, {pkg_name}),
     cellar |-> Drop(st.cellar, {d \in DOMAIN st.cellar : d[1] = pkg_name}),
     bin    |-> Drop(st.bin, Range(st.inv[pkg_name].symlinks)),
     cache  |-> CacheInvalidate(st.cache, pkg_name),
     raised |-> FALSE]

\* The removal loop; self.inventory[pkg_name] raises KeyError when the entry
\* is gone.
RECURSIVE UninstallEach(_, _, _)
UninstallEach(to_remove, i, st) ==
    IF i > Len(to_remove) \/ st.raised THEN st
    ELSE IF to_remove[i] \notin DOMAIN st.inv
         THEN [st EXCEPT !.raised = TRUE]
         ELSE UninstallEach(to_remove, i + 1, UninstallOne(st, to_remove[i]))

\* uninstall(pkg_names, confirm); answer is what the user replies when asked.
Uninstall ==
    /\ Idle
    /\ call.n < MaxCalls
    /\ \E pkg_names \in SeqsUpTo(Pkgs, MaxNames), confirm \in BOOLEAN,
          answer \in BOOLEAN :
          LET to_remove == ToRemove(pkg_names, inventory)
              go == to_remove # << >> /\ (confirm => answer)
              st == UninstallEach(IF go THEN to_remove ELSE << >>, 1,
                                  [inv |-> inventory, file |-> inventory_file,
                                   cellar |-> cellar, bin |-> bin_dir,
                                   cache |-> metadata_cache, raised |-> FALSE])
          IN  /\ inventory' = st.inv
              /\ inventory_file' = st.file
              /\ cellar' = st.cellar
              /\ bin_dir' = st.bin
              /\ metadata_cache' = st.cache
              /\ pre' = Snapshot
              /\ call' = [NoCall EXCEPT
                    !.n = call.n + 1, !.op = "uninstall", !.names = pkg_names,
                    !.prompted = (to_remove # << >> /\ confirm),
                    !.outcome = IF to_remove = << >> THEN "not_found"
                                ELSE IF ~go THEN "declined"
                                ELSE IF st.raised THEN "raised"
                                ELSE "uninstalled"]
    /\ UNCHANGED <<registry, deps, now, tarballs, dep_cache, sha_memo, workers, faults, saves>>

----------------------------------------------------------------------------
(* Brewery.cleanup *)

\* Mutant of StaleDirs: the directories of packages that are not in the
\* inventory are passed over.
StaleDirsOfInstalled(dirs, inv) ==
    {d \in dirs : d[1] \in DOMAIN inv /\ inv[d[1]].version # d[2]}

\* Mutant of StaleDirs: the active version is not spared.
StaleDirsAll(dirs, inv) == dirs

\* The version directories cleanup removes: those whose name is not the
\* version the inventory records for the package.
StaleDirs(dirs, inv) ==
    {d \in dirs : d[1] \notin DOMAIN inv \/ inv[d[1]].version # d[2]}

Cleanup ==
    /\ Idle
    /\ call.n < MaxCalls
    /\ tarballs' = EmptyMap
    /\ cellar' = Drop(cellar, StaleDirs(DOMAIN cellar, inventory))
    /\ metadata_cache' = CacheClearExpired(metadata_cache, now)
    /\ pre' = Snapshot
    /\ call' = [NoCall EXCEPT !.n = call.n + 1, !.op = "cleanup",
                              !.outcome = "cleaned"]
    /\ UNCHANGED <<registry, deps, now, inventory_file, bin_dir, inventory,
                   dep_cache, sha_memo, workers, faults, saves>>

----------------------------------------------------------------------------
(* Brewery.upgrade *)

\* The orders in which a dict can hold the keys S.
Orders(S) == {s \in [1..Cardinality(S) -> S] : Range(s) = S}

\* The check loop: every inventory package's metadata is fetched past the
\* cache; the package is outdated when the stable version differs.
RECURSIVE CheckEach(_, _, _, _, _)
CheckEach(names, i, st, net, t) ==
    IF i > Len(names) THEN st
    ELSE LET r == GetApiData(st.cache, names[i], TRUE, net[names[i]], t)
         IN  CheckEach(names, i + 1,
                       [cache    |-> r.cache,
                        outdated |-> IF r.data # None /\
                                        r.data[1].version # inventory[names[i]].version
                                     THEN Append(st.outdated, names[i])
                                     ELSE st.outdated],
                       net, t)

Upgrade ==
    /\ Idle
    /\ call.n < MaxCalls
    /\ \E names \in Orders(DOMAIN inventory),
          net1 \in NetFailing(DOMAIN inventory), net2 \in NetChoices :
          LET st == CheckEach(names, 1,
                              [cache |-> metadata_cache, outdated |-> << >>],
                              net1, now)
          IN  IF st.outdated = << >>
              THEN /\ metadata_cache' = st.cache
                   /\ pre' = Snapshot
                   /\ call' = [NoCall EXCEPT !.n = call.n + 1, !.op = "upgrade",
                                             !.outcome = "up_to_date"]
                   /\ UNCHANGED <<registry, deps, now, inventory_file, cellar,
                                  bin_dir, tarballs, inventory, dep_cache,
                                  sha_memo, workers, faults, saves>>
              ELSE InstallStart("upgrade", st.outdated, TRUE, st.cache, net2)

----------------------------------------------------------------------------
(* The process and its environment *)

\* Brewery.__init__ in a new process: the inventory is loaded from
\* inventory.json, the session memos start empty.
NewSession ==
    /\ Idle
    /\ dep_cache # EmptyMap \/ sha_memo # EmptyMap
    /\ inventory' = inventory_file
    /\ dep_cache' = EmptyMap
    /\ sha_memo' = EmptyMap
    /\ UNCHANGED <<registry, deps, now, metadata_cache, inventory_file, cellar,
                   bin_dir, tarballs, workers, call, pre, faults, saves>>

RECURSIVE Sum(_, _)
Sum(f, S) == IF S = {} THEN 0
             ELSE LET x == CHOOSE y \in S : TRUE IN f[x] + Sum(f, S \ {x})

\* Upstream publishes a new stable version of p.
Publish(p) ==
    /\ Idle
    /\ Sum(registry, Pkgs) - Cardinality(Pkgs) < MaxBumps
    /\ registry' = [registry EXCEPT ![p] = @ + 1]
    /\ UNCHANGED <<deps, now, metadata_cache, inventory_file, cellar, bin_dir,
                   tarballs, inventory, dep_cache, sha_memo, workers, call, pre,
                   faults, saves>>

Init ==
    /\ registry = [p \in Pkgs |-> 1]
    /\ deps = MainGraph
    /\ now = 0
    /\ metadata_cache = EmptyMap
    /\ inventory_file = EmptyMap
    /\ cellar = EmptyMap
    /\ bin_dir = EmptyMap
    /\ tarballs = EmptyMap
    /\ inventory = EmptyMap
    /\ dep_cache = EmptyMap
    /\ sha_memo = EmptyMap
    /\ workers = [p \in Pkgs |-> NoWorker]
    /\ call = NoCall
    /\ pre = [inventory |-> EmptyMap, cellar |-> EmptyMap, bin_dir |-> EmptyMap,
              tarballs |-> EmptyMap]
    /\ faults = 0
    /\ saves = NoSaves

Next ==
    \/ Install
    \/ Upgrade
    \/ Uninstall
    \/ Cleanup
    \/ NewSession
    \/ \E p \in Pkgs : Publish(p)
    \/ \E p \in Pkgs : WorkerRun(p)
    \/ \E p \in Pkgs : WorkerLink(p)
    \/ \E p \in Pkgs : WorkerLinkRaced(p)
    \/ \E p \in Pkgs : Collect(p)

Spec == Init /\ [][Next]_vars

----------------------------------------------------------------------------
(* SpecInstall: install calls alone, with several roots, over several        *)
(* dependency graphs.                                                        *)

InstallMany ==
    /\ Idle
    /\ call.n < MaxInstalls
    /\ \E pkg_names \in SeqsUpTo(Pkgs, MaxNames), force \in BOOLEAN,
          net \in NetChoices :
          InstallStart("install", pkg_names, force, metadata_cache, net)

InitInstall ==
    /\ registry = [p \in Pkgs |-> 1]
    /\ deps \in Graphs
    /\ now = 0
    /\ metadata_cache = EmptyMap
    /\ inventory_file = EmptyMap
    /\ cellar = EmptyMap
    /\ bin_dir = EmptyMap
    /\ tarballs = EmptyMap
    /\ inventory = EmptyMap
    /\ dep_cache = EmptyMap
    /\ sha_memo = EmptyMap
    /\ workers = [p \in Pkgs |-> NoWorker]
    /\ call = NoCall
    /\ pre = [inventory |-> EmptyMap, cellar |-> EmptyMap, bin_dir |-> EmptyMap,
              tarballs |-> EmptyMap]
    /\ faults = 0
    /\ saves = NoSaves

NextInstall ==
    \/ InstallMany
    \/ NewSession
    \/ \E p \in Pkgs : WorkerRun(p)
    \/ \E p \in Pkgs : WorkerLink(p)
    \/ \E p \in Pkgs : WorkerLinkRaced(p)
    \/ \E p \in Pkgs : Collect(p)

SpecInstall == InitInstall /\ [][NextInstall]_vars

----------------------------------------------------------------------------
(* Vocabulary of the properties *)

\* A step that begins an API call.
Begins(op) == call'.n # call.n /\ call'.op = op

\* The installs, whether made by install or by upgrade, that got past
\* resolution.
Resolved(c) ==
    c.op \in {"install", "upgrade"} /\
    c.outcome \in {"running", "returned", "nothing_to_do"}

\* The packages reachable from the packages S along the served dependencies.
RECURSIVE Reachable(_)
Reachable(S) ==
    LET T == S \cup UNION {Range(deps[p]) : p \in S}
    IN  IF T = S THEN S ELSE Reachable(T)

\* The walk the resolver is meant to make, with no memo: who first reaches
\* whom, depth first from each root in turn.
RECURSIVE FirstReach(_, _, _, _)
FirstReach(names, i, parent, seen) ==
    IF i > Len(names) THEN seen
    ELSE FirstReach(names, i + 1, parent,
                    IF names[i] \in DOMAIN seen THEN seen
                    ELSE FirstReach(deps[names[i]], 1, names[i],
                                    Put(seen, names[i], parent)))

\* The link bin/<s> points into the directory dir.
LinksInto(s, dir) ==
    s \in DOMAIN bin_dir /\ <<bin_dir[s][1], bin_dir[s][2]>> = dir

----------------------------------------------------------------------------
(* C1 *)

Expected(p) == workers[p].data[1].files[OS_FLAVOR].sha256

Mismatch(p) ==
    workers[p].got # None /\ Sha256Hex(workers[p].got[1]) # Expected(p)

\* C1: a worker gets past verification (and so its package into the
\* inventory) only with a tarball that hashes to the sha256 of its metadata;
\* a worker whose tarball does not has raised, its tarball is gone, and the
\* package's inventory entry and Cellar directories are as they were when
\* the run began.
C1_CommitOnlyVerified ==
    \A p \in Pkgs :
        /\ Pc(p) \in {"link", "ok"} => ~Mismatch(p)
        /\ Mismatch(p) =>
              /\ Pc(p) = "raised"
              /\ TmpFile(p, workers[p].version) \notin DOMAIN tarballs
              /\ (p \in DOMAIN inventory) = (p \in DOMAIN pre.inventory)
              /\ p \in DOMAIN inventory => inventory[p] = pre.inventory[p]
              /\ \A d \in DOMAIN cellar \cup DOMAIN pre.cellar :
                    d[1] = p => /\ d \in DOMAIN cellar
                                /\ d \in DOMAIN pre.cellar
                                /\ cellar[d] = pre.cellar[d]

----------------------------------------------------------------------------
(* C2 *)

----------------------------------------------------------------------------
(* C3 *)

\* C3: with no operation in progress, the path of every inventory entry is
\* Cellar/<name>/<version> and that directory exists.  (The inventory is a
\* dict keyed by name: one entry a name.)
C3_EntryPathExists ==
    Idle => \A p \in DOMAIN inventory :
               /\ inventory[p].path = <<p, inventory[p].version>>
               /\ inventory[p].path \in DOMAIN cellar

\* cleanup has removed a stale version directory and kept the active one.
C3_Witness ==
    /\ Idle
    /\ call.op = "cleanup"
    /\ \E p \in DOMAIN inventory :
          /\ inventory[p].version = 2
          /\ <<p, 1>> \in DOMAIN pre.cellar
          /\ <<p, 1>> \notin DOMAIN cellar
          /\ <<p, 2>> \in DOMAIN cellar

----------------------------------------------------------------------------
(* C4 *)

\* C4: an install call whose resolution meets missing metadata submits no
\* worker and leaves the inventory, inventory.json, the Cellar, bin/ and the
\* tarballs as they were.
C4_ResolutionErrorAborts ==
    [][(Begins("install") /\ call'.outcome = "resolution_error") =>
          /\ \A p \in Pkgs : workers'[p].pc = "idle"
          /\ call'.to_fetch = {}
          /\ UNCHANGED <<inventory, inventory_file, cellar, bin_dir, tarballs>>]_vars

\* Resolution failed on the second root after the first root, which is not
\* installed, was resolved with all its dependencies.
C4_Witness ==
    /\ call.op = "install"
    /\ call.outcome = "resolution_error"
    /\ Len(call.names) = 2
    /\ call.names[1] \in DOMAIN call.plan
    /\ Reachable({call.names[1]}) \subseteq DOMAIN call.plan
    /\ call.names[1] \notin DOMAIN inventory
    /\ Idle

----------------------------------------------------------------------------
(* C5 *)

\* What C5 says is submitted: the plan under force, else the plan less the
\* packages installed when the call began.
Wanted(c, before) ==
    IF c.force THEN DOMAIN c.plan ELSE DOMAIN c.plan \ DOMAIN before

\* Through a run: only submitted packages have a worker or are committed;
\* without force the entries of the installed plan packages stay as they are.
RunKeepsToPlan ==
    Resolved(call) =>
       /\ {p \in Pkgs : Pc(p) # "idle"} \subseteq call.to_fetch
       /\ call.committed \subseteq call.to_fetch
       /\ call.to_fetch = {} => Idle
       /\ ~call.force =>
             \A p \in DOMAIN call.plan \cap DOMAIN pre.inventory :
                p \in DOMAIN inventory /\ inventory[p] = pre.inventory[p]

\* C5: a call that gets past resolution submits a worker for exactly the
\* wanted packages, and the run keeps to them.
C5_InstallSet ==
    [][/\ (call'.n # call.n /\ Resolved(call')) =>
             /\ call'.to_fetch = Wanted(call', inventory)
             /\ {p \in Pkgs : workers'[p].pc = "start"} = call'.to_fetch
       /\ RunKeepsToPlan']_vars

\* An install without force of a plan that is partly installed: workers run
\* for the rest only.
C5_Witness ==
    /\ call.op = "install"
    /\ ~call.force
    /\ call.outcome = "returned"
    /\ DOMAIN call.plan \cap DOMAIN pre.inventory # {}
    /\ call.committed # {}

----------------------------------------------------------------------------
(* C6 *)

\* C6: the plan of an install call that resolved without error holds every
\* root and is closed under dependencies: it is the set of packages
\* reachable from the roots.
C6_PlanClosed ==
    (call.op = "install" /\ Resolved(call)) =>
       /\ Range(call.names) \subseteq DOMAIN call.plan
       /\ \A p \in DOMAIN call.plan :
             Range(call.plan[p].dependencies) \subseteq DOMAIN call.plan
       /\ DOMAIN call.plan = Reachable(Range(call.names))

----------------------------------------------------------------------------
(* C7 *)

\* C7: the requested_by of every plan package is the one the depth-first
\* walk from the roots of this call assigns when it first reaches the
\* package.
C7_FirstRequester ==
    (call.op = "install" /\ Resolved(call)) =>
       \A p \in DOMAIN call.plan :
          call.plan[p].requested_by =
             FirstReach(call.names, 1, UserRequest, EmptyMap)[p]

----------------------------------------------------------------------------
(* C8 *)

\* The last call was install X, and X is installed.
Installed(X) ==
    /\ Idle
    /\ call.op = "install"
    /\ call.names = <<X>>
    /\ X \in DOMAIN inventory

\* The step is a second install X, without force.
InstallsAgain(X) ==
    Begins("install") /\ call'.names = <<X>> /\ ~call'.force

NoOp ==
    /\ call'.to_fetch = {}
    /\ \A p \in Pkgs : workers'[p].pc = "idle"
    /\ UNCHANGED <<inventory, inventory_file, cellar, bin_dir, tarballs>>

----------------------------------------------------------------------------
(* C9 *)

\* The step is uninstall X, carried out.
Uninstalls(X) ==
    Begins("uninstall") /\ call'.names = <<X>> /\ call'.outcome = "uninstalled"

\* The inventory, the Cellar and bin/ are again what they were when the last
\* call began.
Restored ==
    /\ inventory' = pre.inventory
    /\ cellar' = pre.cellar
    /\ bin_dir' = pre.bin_dir

\* C9 as claimed: uninstall X after install X restores the inventory, the
\* Cellar and bin/, for every X and every prior state.
C9_InstallUninstallRestores ==
    [][\A X \in Pkgs : (Installed(X) /\ Uninstalls(X)) => Restored]_vars

\* The install began without X in the inventory, without a directory of X
\* in the Cellar and without the names of X's links in bin/, and committed X
\* and nothing else, leaving the directories of the other packages as they
\* were.
InstalledAlone(X) ==
    /\ Installed(X)
    /\ call.committed = {X}
    /\ X \notin DOMAIN pre.inventory
    /\ \A d \in DOMAIN pre.cellar : d[1] # X
    /\ Range(inventory[X].symlinks) \cap DOMAIN pre.bin_dir = {}
    /\ \A d \in DOMAIN cellar : d[1] # X => d \in DOMAIN pre.cellar

\* C9 as amended: so it is when the install added X alone to a state that
\* held nothing of X, and extracted no other package.
C9_InstallAloneUninstallRestores ==
    [][\A X \in Pkgs : (InstalledAlone(X) /\ Uninstalls(X)) => Restored]_vars

\* b was installed into the empty state by the first call and uninstalled by
\* the second.  (No row for a in the cache: the first call resolved b alone.)
C9_Witness ==
    /\ call.n = 2
    /\ call.op = "uninstall"
    /\ call.names = <<"b">>
    /\ call.outcome = "uninstalled"
    /\ pre.inventory # EmptyMap
    /\ pre.cellar # EmptyMap
    /\ pre.bin_dir # EmptyMap
    /\ inventory = EmptyMap
    /\ cellar = EmptyMap
    /\ bin_dir = EmptyMap
    /\ "a" \notin DOMAIN metadata_cache

----------------------------------------------------------------------------
(* C10 *)

\* C10: uninstall of names none of which is in the inventory reports them
\* not found, asks for no confirmation, and leaves the inventory,
\* inventory.json, the Cellar, bin/ and the metadata cache as they were.
C10_UninstallAbsent ==
    [][(Begins("uninstall") /\
        \A i \in DOMAIN call'.names : call'.names[i] \notin DOMAIN inventory) =>
          /\ call'.outcome = "not_found"
          /\ ~call'.prompted
          /\ UNCHANGED <<inventory, inventory_file, cellar, bin_dir,
                         metadata_cache>>]_vars

\* The second of two calls uninstall b, after b was installed in this
\* session: b is in the session memo, and its cache row, written when it was
\* resolved, has been invalidated.
C10_Witness ==
    /\ call.n = 3
    /\ call.op = "uninstall"
    /\ call.names = <<"b">>
    /\ call.outcome = "not_found"
    /\ "b" \in DOMAIN dep_cache
    /\ "b" \notin DOMAIN metadata_cache
    /\ "b" \notin DOMAIN inventory

----------------------------------------------------------------------------
(* C11 *)

\* C11: after cleanup no tarball is left in the base directory, every
\* version directory left in the Cellar is the active version of an inventory
\* package, and the active version directory of every inventory package is
\* there as it was.
C11_AfterCleanup ==
    call.op = "cleanup" =>
       /\ tarballs = EmptyMap
       /\ \A d \in DOMAIN cellar :
             d[1] \in DOMAIN inventory /\ inventory[d[1]].version = d[2]
       /\ \A p \in DOMAIN inventory :
             inventory[p].path \in DOMAIN pre.cellar =>
                /\ inventory[p].path \in DOMAIN cellar
                /\ cellar[inventory[p].path] = pre.cellar[inventory[p].path]

\* cleanup found a tarball that a failed download had left, and the
\* directory of a package that is installed.
C11_Witness ==
    /\ call.op = "cleanup"
    /\ pre.tarballs # EmptyMap
    /\ tarballs = EmptyMap
    /\ \E p \in DOMAIN inventory : inventory[p].path \in DOMAIN cellar

----------------------------------------------------------------------------
(* SpecCache: the MetadataCache API and the registry client, called on       *)
(* their own while the clock advances.  In call: the operation, its          *)
(* argument, the cache it found, what it returned, and for a fetch the       *)
(* attempts made so far, the last status and whether the loop goes on.       *)

CacheNames == {"a", "b"}

\* ttl_hours handed to set
TTLs == {0, 1}

\* seconds by which the clock advances between two calls
TickSteps == {1, 3599}

\* what one HTTP attempt of _get_api_data meets
Statuses == {"200", "404", "503", "timeout", "error"}

NoCacheCall == [n |-> 0, op |-> "none", name |-> "", force |-> FALSE,
                before |-> EmptyMap, got |-> None, attempts |-> 0,
                status |-> "", pending |-> FALSE, ticks |-> 0, delay |-> 0]

CacheCall(op, name) ==
    [NoCacheCall EXCEPT !.n = call.n + 1, !.op = op, !.name = name,
                        !.ticks = call.ticks]

CacheReady == ~call.pending /\ call.n < MaxCacheOps

CacheSetOp ==
    /\ CacheReady
    /\ \E name \in CacheNames, ttl \in TTLs :
          /\ metadata_cache' = CacheSet(metadata_cache, name,
                                        Metadata(name, registry[name]), now, ttl)
          /\ call' = CacheCall("set", name)
    /\ UNCHANGED <<registry, deps, now, inventory_file, cellar, bin_dir, tarballs,
                   inventory, dep_cache, sha_memo, workers, pre, faults, saves>>

CacheGetOp ==
    /\ CacheReady
    /\ \E name \in CacheNames :
          LET r == CacheGet(metadata_cache, name, now)
          IN  /\ metadata_cache' = r.cache
              /\ call' = [CacheCall("get", name) EXCEPT
                            !.before = metadata_cache, !.got = r.data]
    /\ UNCHANGED <<registry, deps, now, inventory_file, cellar, bin_dir, tarballs,
                   inventory, dep_cache, sha_memo, workers, pre, faults, saves>>

CacheInvalidateOp ==
    /\ CacheReady
    /\ \E name \in CacheNames :
          /\ metadata_cache' = CacheInvalidate(metadata_cache, name)
          /\ call' = [CacheCall("invalidate", name) EXCEPT !.before = metadata_cache]
    /\ UNCHANGED <<registry, deps, now, inventory_file, cellar, bin_dir, tarballs,
                   inventory, dep_cache, sha_memo, workers, pre, faults, saves>>

CacheClearExpiredOp ==
    /\ CacheReady
    /\ metadata_cache' = CacheClearExpired(metadata_cache, now)
    /\ call' = [CacheCall("clear_expired", "") EXCEPT !.before = metadata_cache]
    /\ UNCHANGED <<registry, deps, now, inventory_file, cellar, bin_dir, tarballs,
                   inventory, dep_cache, sha_memo, workers, pre, faults, saves>>

\* time.time() returns more than at the last call
CacheTick ==
    /\ ~call.pending
    /\ call.ticks < MaxTicks
    /\ \E dt \in TickSteps : now' = now + dt
    /\ call' = [call EXCEPT !.ticks = @ + 1]
    /\ UNCHANGED <<registry, deps, metadata_cache, inventory_file, cellar, bin_dir,
                   tarballs, inventory, dep_cache, sha_memo, workers, pre, faults,
                   saves>>

\* Mutant of AfterAttempt: a 404 is retried like any other failure.
AfterAttemptRetry404(status, attempt) ==
    IF status = "200" THEN "data"
    ELSE IF attempt < RETRY_ATTEMPTS THEN "retry"
    ELSE "absent"

\* One round of the retry loop of _get_api_data, attempt counted from 1: a 200
\* returns the data, a 404 returns None, anything else goes round again
\* until the attempts are used up, and then None is returned.
AfterAttempt(status, attempt) ==
    IF status = "200" THEN "data"
    ELSE IF status = "404" THEN "absent"
    ELSE IF attempt < RETRY_ATTEMPTS THEN "retry"
    ELSE "absent"

\* The seconds the loop sleeps after an attempt, counted from 1: RETRY_DELAY
\* in the two except branches when an attempt is left, none after a status.
DelayAfter(status, attempt) ==
    IF status \in {"timeout", "error"} /\ attempt < RETRY_ATTEMPTS
    THEN RETRY_DELAY ELSE 0

\* _get_api_data up to the loop: the cache is read unless force_refresh.
FetchStart ==
    /\ CacheReady
    /\ \E name \in CacheNames, force \in BOOLEAN :
          LET hit == IF force THEN [data |-> None, cache |-> metadata_cache]
                     ELSE CacheGet(metadata_cache, name, now)
          IN  /\ metadata_cache' = hit.cache
              /\ call' = [CacheCall("fetch", name) EXCEPT
                            !.force = force, !.before = metadata_cache,
                            !.got = hit.data, !.pending = (hit.data = None)]
    /\ UNCHANGED <<registry, deps, now, inventory_file, cellar, bin_dir, tarballs,
                   inventory, dep_cache, sha_memo, workers, pre, faults, saves>>

\* One HTTP attempt and what the loop does with it.
FetchAttempt ==
    /\ call.op = "fetch"
    /\ call.pending
    /\ \E status \in Statuses :
          LET verdict == AfterAttempt(status, call.attempts + 1)
              data    == Metadata(call.name, registry[call.name])
          IN  /\ metadata_cache' = IF verdict = "data"
                                   THEN CacheSet(metadata_cache, call.name, data,
                                                 now, CACHE_TTL_HOURS)
                                   ELSE metadata_cache
              /\ call' = [call EXCEPT
                            !.attempts = @ + 1, !.status = status,
                            !.before = metadata_cache,
                            !.got = IF verdict = "data" THEN Some(data) ELSE None,
                            !.pending = (verdict = "retry"),
                            !.delay = DelayAfter(status, call.attempts + 1)]
              /\ now' = now + DelayAfter(status, call.attempts + 1)
    /\ UNCHANGED <<registry, deps, inventory_file, cellar, bin_dir, tarballs,
                   inventory, dep_cache, sha_memo, workers, pre, faults, saves>>

InitCache ==
    /\ registry = [p \in Pkgs |-> 1]
    /\ deps = MainGraph
    /\ now = 0
    /\ metadata_cache = EmptyMap
    /\ inventory_file = EmptyMap
    /\ cellar = EmptyMap
    /\ bin_dir = EmptyMap
    /\ tarballs = EmptyMap
    /\ inventory = EmptyMap
    /\ dep_cache = EmptyMap
    /\ sha_memo = EmptyMap
    /\ workers = [p \in Pkgs |-> NoWorker]
    /\ call = NoCacheCall
    /\ pre = [inventory |-> EmptyMap, cellar |-> EmptyMap, bin_dir |-> EmptyMap,
              tarballs |-> EmptyMap]
    /\ faults = 0
    /\ saves = NoSaves

NextCache ==
    \/ CacheSetOp
    \/ CacheGetOp
    \/ CacheInvalidateOp
    \/ CacheClearExpiredOp
    \/ CacheTick
    \/ FetchStart
    \/ FetchAttempt

SpecCache == InitCache /\ [][NextCache]_vars

----------------------------------------------------------------------------
(* C12 *)

\* The row of name in cache is not expired at time t.
Fresh(cache, name, t) ==
    /\ name \in DOMAIN cache
    /\ t - cache[name].cached_at < cache[name].ttl_hours * 3600

\* C12: get(name) returns the stored record exactly when a row exists with
\* now - cached_at < ttl_hours * 3600, and then deletes nothing; otherwise it
\* returns absent, the row (if any) is gone, and the other rows stay.
C12_GetServesFreshOnly ==
    [][(call'.n # call.n /\ call'.op = "get") =>
          IF Fresh(metadata_cache, call'.name, now)
          THEN /\ call'.got = Some(metadata_cache[call'.name].data)
               /\ metadata_cache' = metadata_cache
          ELSE /\ call'.got = None
               /\ call'.name \notin DOMAIN metadata_cache'
               /\ metadata_cache' = Drop(metadata_cache, {call'.name})]_vars

\* get found a row stored with ttl_hours = 0, returned absent and deleted it.
C12_Witness ==
    /\ call.op = "get"
    /\ call.name \in DOMAIN call.before
    /\ call.before[call.name].ttl_hours = 0
    /\ call.got = None
    /\ call.name \notin DOMAIN metadata_cache

----------------------------------------------------------------------------
(* C13 *)

----------------------------------------------------------------------------
(* SpecSave: two processes in Brewery._save_inventory.  inventory.json is    *)
(* saves.file, a sequence of blocks; block <<p, k, i>> is the i-th block of  *)
(* the document process p writes in its k-th save, "hole" a block of zero    *)
(* bytes.  saves.lock is the holder of the flock, if any.  A process has its *)
(* own file object: a position in the file and a buffer of blocks that       *)
(* json.dump has written and the file object has not yet passed on.          *)

Procs == {1, 2}

NoSave == [pc |-> "idle", k |-> 0, len |-> 0, pos |-> 0, buf |-> << >>]

\* write(2) of the blocks bs at position pos: the file is extended with
\* holes up to pos, and the blocks replace or extend what is there.
WriteAt(file, pos, bs) ==
    [i \in 1..(IF Len(file) > pos + Len(bs) THEN Len(file) ELSE pos + Len(bs)) |->
        IF i > pos /\ i <= pos + Len(bs) THEN bs[i - pos]
        ELSE IF i <= Len(file) THEN file[i]
        ELSE "hole"]

\* The JSON document of p's k-th save.
Document(p, k, len) == [i \in 1..len |-> <<p, k, i>>]

SavePc(p) == saves.proc[p].pc

\* Line 278, open(INVENTORY_FILE, 'w'): the file is truncated; the new file
\* object stands at position 0 with an empty buffer.
SaveOpen(p) ==
    /\ SavePc(p) \in {"idle", "closed"}
    /\ saves.proc[p].k < MaxSaves
    /\ \E len \in 1..MaxBlocks :
          saves' = [saves EXCEPT
                      !.file = << >>,
                      !.proc[p] = [pc |-> "opened", k |-> saves.proc[p].k + 1,
                                   len |-> len, pos |-> 0, buf |-> << >>]]
    /\ UNCHANGED <<registry, deps, now, metadata_cache, inventory_file, cellar,
                   bin_dir, tarballs, inventory, dep_cache, sha_memo, workers, call,
                   pre, faults>>

\* Line 280, fcntl.flock(f, LOCK_EX): waits until no process holds the lock.
SaveLock(p) ==
    /\ SavePc(p) = "opened"
    /\ saves.lock = None
    /\ saves' = [saves EXCEPT !.lock = Some(p), !.proc[p].pc = "locked"]
    /\ UNCHANGED <<registry, deps, now, metadata_cache, inventory_file, cellar,
                   bin_dir, tarballs, inventory, dep_cache, sha_memo, workers, call,
                   pre, faults>>

\* Line 281, json.dump(self.inventory, f): the document goes into the buffer
\* of the file object; what exceeds the buffer is written to the file, the
\* last block stays in the buffer.
SaveDump(p) ==
    /\ SavePc(p) = "locked"
    /\ LET me   == saves.proc[p]
           doc  == Document(p, me.k, me.len)
           out  == SubSeq(doc, 1, me.len - 1)
       IN  saves' = [saves EXCEPT
                       !.file = WriteAt(saves.file, me.pos, out),
                       !.proc[p].pos = me.pos + Len(out),
                       !.proc[p].buf = SubSeq(doc, me.len, me.len),
                       !.proc[p].pc = "dumped"]
    /\ UNCHANGED <<registry, deps, now, metadata_cache, inventory_file, cellar,
                   bin_dir, tarballs, inventory, dep_cache, sha_memo, workers, call,
                   pre, faults>>

\* Line 283, fcntl.flock(f, LOCK_UN) in the finally clause.
SaveUnlock(p) ==
    /\ SavePc(p) = "dumped"
    /\ saves' = [saves EXCEPT !.lock = None, !.proc[p].pc = "unlocked"]
    /\ UNCHANGED <<registry, deps, now, metadata_cache, inventory_file, cellar,
                   bin_dir, tarballs, inventory, dep_cache, sha_memo, workers, call,
                   pre, faults>>

\* The end of the with block of line 278: f.close() writes the buffer to the
\* file.
SaveClose(p) ==
    /\ SavePc(p) = "unlocked"
    /\ LET me == saves.proc[p]
       IN  saves' = [saves EXCEPT
                       !.file = WriteAt(saves.file, me.pos, me.buf),
                       !.proc[p].pos = me.pos + Len(me.buf),
                       !.proc[p].buf = << >>,
                       !.proc[p].pc = "closed"]
    /\ UNCHANGED <<registry, deps, now, metadata_cache, inventory_file, cellar,
                   bin_dir, tarballs, inventory, dep_cache, sha_memo, workers, call,
                   pre, faults>>

InitSave ==
    /\ registry = [p \in Pkgs |-> 1]
    /\ deps = MainGraph
    /\ now = 0
    /\ metadata_cache = EmptyMap
    /\ inventory_file = EmptyMap
    /\ cellar = EmptyMap
    /\ bin_dir = EmptyMap
    /\ tarballs = EmptyMap
    /\ inventory = EmptyMap
    /\ dep_cache = EmptyMap
    /\ sha_memo = EmptyMap
    /\ workers = [p \in Pkgs |-> NoWorker]
    /\ call = NoCall
    /\ pre = [inventory |-> EmptyMap, cellar |-> EmptyMap, bin_dir |-> EmptyMap,
              tarballs |-> EmptyMap]
    /\ faults = 0
    /\ saves = [file |-> << >>, lock |-> None, proc |-> [p \in Procs |-> NoSave]]

NextSave ==
    \/ \E p \in Procs : SaveOpen(p)
    \/ \E p \in Procs : SaveLock(p)
    \/ \E p \in Procs : SaveDump(p)
    \/ \E p \in Procs : SaveUnlock(p)
    \/ \E p \in Procs : SaveClose(p)

SpecSave == InitSave /\ [][NextSave]_vars

----------------------------------------------------------------------------
(* C14 *)

\* Every process has closed its file, and some process has saved.
AllSaved(sv) ==
    /\ \A p \in Procs : sv.proc[p].pc \in {"idle", "closed"}
    /\ \E p \in Procs : sv.proc[p].pc = "closed"

\* The file holds the whole document of one save of one process, and
\* nothing else.
OneDocument(sv) ==
    \E p \in Procs :
       /\ sv.proc[p].pc = "closed"
       /\ sv.file = Document(p, sv.proc[p].k, sv.proc[p].len)

\* C14: inventory.json is truncated or written only by the process that
\* holds the lock, and when the processes have finished it holds the
\* complete document of one of them.
C14_OnlyLockHolderWrites ==
    [][/\ saves'.file # saves.file =>
             \E p \in Procs : /\ saves.lock = Some(p)
                              /\ saves'.proc[p] # saves.proc[p]
       /\ AllSaved(saves') => OneDocument(saves')]_vars

----------------------------------------------------------------------------
(* C15 *)

\* An install run, made by install or by upgrade, is under way or has
\* returned.
InRun == call.op \in {"install", "upgrade"} /\ call.outcome \in {"running", "returned"}

\* The entry the coordinator writes for a package of the run.
EntryOf(p) ==
    [version  |-> call.plan[p].version,
     path     |-> <<p, call.plan[p].version>>,
     symlinks |-> Exes[p]]

\* The inventory the run began with, with the entries of the packages
\* committed so far.
CommittedSoFar ==
    [p \in DOMAIN pre.inventory \cup call.committed |->
        IF p \in call.committed THEN EntryOf(p) ELSE pre.inventory[p]]

\* C15: in an install run no step of a worker changes the inventory or
\* inventory.json, and at every point of the run the file, like the
\* inventory map, holds the entries the run began with and those of the
\* packages whose results have been processed so far, and nothing else.
C15_SavedAfterEachResult ==
    [][/\ (call' = call /\ workers' # workers) =>
             UNCHANGED <<inventory, inventory_file>>
       /\ InRun' => /\ inventory_file' = CommittedSoFar'
                    /\ inventory' = inventory_file']_vars

\* In a run that began with an inventory entry, one package is committed,
\* one worker has failed or skipped and been taken, and one worker is still
\* at work.
C15_Witness ==
    /\ InRun
    /\ pre.inventory # EmptyMap
    /\ call.committed # {}
    /\ \E p \in call.to_fetch \ call.committed : Pc(p) = "idle"
    /\ \E p \in call.to_fetch \ call.committed : Pc(p) \in {"start", "link"}

----------------------------------------------------------------------------
(* C16 *)

LeavesCommitted ==
    \A p \in Pkgs :
       (Pc(p) = "ok" /\ workers'[p].pc # "ok") =>
          /\ p \in call'.committed
          /\ p \in DOMAIN inventory'
          /\ inventory'[p] = [version  |-> workers[p].version,
                              path     |-> <<p, workers[p].version>>,
                              symlinks |-> workers[p].links]

ReturnsLast ==
    (call'.outcome = "returned" /\ call.outcome # "returned") =>
       \A p \in Pkgs : workers'[p].pc = "idle"

\* C16: whatever the other workers of the run have done, a worker that is
\* through its own steps leaves the run only by having its package committed
\* with the entry it returned; a finished worker can always be taken by the
\* coordinator; and install returns only when no worker is left.
C16_WorkersIsolated ==
    /\ [](\A p \in Pkgs : Pc(p) \in {"ok", "none", "raised"} => ENABLED Collect(p))
    /\ [][LeavesCommitted /\ ReturnsLast]_vars

\* install a has returned: a is committed though the worker of b failed and
\* the worker of c skipped.
C16_Witness ==
    /\ call.op = "install"
    /\ call.outcome = "returned"
    /\ call.to_fetch = {"a", "b", "c"}
    /\ call.committed = {"a"}
    /\ "b" \notin DOMAIN inventory
    /\ Idle

----------------------------------------------------------------------------
(* C17 *)

\* The metadata the worker of p has just read has no bottle for this OS
\* flavor.
NoBottleServed(p) ==
    /\ p \in DOMAIN metadata_cache'
    /\ OS_FLAVOR \notin DOMAIN metadata_cache'[p].data.files

\* C17: a worker whose metadata has no bottle for the OS flavor returns the
\* skipped result and leaves the tarballs, the Cellar, bin/, the inventory
\* and the other workers as they are; when the coordinator takes that result
\* it writes no entry.
C17_NoBottleSkips ==
    [][\A p \in Pkgs :
          /\ (Pc(p) = "start" /\ workers'[p].pc # "start" /\ NoBottleServed(p)) =>
                /\ workers'[p].pc = "none"
                /\ \A q \in Pkgs \ {p} : workers'[q] = workers[q]
                /\ UNCHANGED <<tarballs, cellar, bin_dir, inventory, inventory_file>>
          /\ (Pc(p) = "none" /\ workers'[p].pc # "none") =>
                /\ p \notin call'.committed
                /\ UNCHANGED <<tarballs, cellar, bin_dir, inventory, inventory_file>>]_vars

\* install a has returned: c, which has no bottle, was skipped, and a and b
\* are installed.
C17_Witness ==
    /\ call.op = "install"
    /\ call.outcome = "returned"
    /\ "c" \in call.to_fetch
    /\ call.committed = {"a", "b"}
    /\ "c" \notin DOMAIN inventory
    /\ \A d \in DOMAIN cellar : d[1] # "c"
    /\ Idle

----------------------------------------------------------------------------
(* C18 *)

\* The step with which a running upgrade returns.
UpgradeReturns ==
    call.op = "upgrade" /\ call.outcome = "running" /\ call'.outcome = "returned"

\* The packages the returning upgrade has installed although upstream had
\* another stable version than the inventory.
Upgraded ==
    {p \in call'.committed :
        p \in DOMAIN pre.inventory /\ pre.inventory[p].version # registry[p]}

\* The inventory and the disk show the upstream version of p next to the old
\* one.
UpgradedTo(p) ==
    /\ p \in DOMAIN inventory'
    /\ inventory'[p].version = registry[p]
    /\ inventory'[p].path = <<p, registry[p]>>
    /\ <<p, registry[p]>> \in DOMAIN cellar'
    /\ <<p, pre.inventory[p].version>> \in DOMAIN cellar'
    /\ \A s \in Range(Exes[p]) :
          (\A q \in Pkgs \ {p} : s \notin Range(Exes[q])) =>
             /\ s \in DOMAIN bin_dir'
             /\ <<bin_dir'[s][1], bin_dir'[s][2]>> = <<p, registry[p]>>

\* The roots upgrade hands to install are outdated inventory packages.
OutdatedRoots ==
    Begins("upgrade") =>
       \A p \in Range(call'.names) :
          p \in DOMAIN inventory /\ inventory[p].version # registry[p]

\* C18: when upgrade has installed an inventory package whose version
\* differed from the upstream stable version, the entry has the upstream
\* version and its Cellar path, that directory exists, the package's own bin
\* links point into it, and the directory of the old version is still there;
\* the roots of an upgrade are outdated packages only.
C18_UpgradeMovesToNewVersion ==
    [][/\ UpgradeReturns => \A p \in Upgraded : UpgradedTo(p)
       /\ OutdatedRoots]_vars

----------------------------------------------------------------------------
(* SpecResolve: the resolver alone, over every dependency graph of the       *)
(* packages.                                                                 *)

MaxDeps == 2
MaxResolves == 1

\* The dependency lists a formula can have: up to MaxDeps packages, none
\* twice, itself among them or not.
DepLists == {ds \in {<< >>} \cup SeqsUpTo(Pkgs, MaxDeps) :
                \A i, j \in DOMAIN ds : i # j => ds[i] # ds[j]}

AllGraphs == [Pkgs -> DepLists]

NoResolve == [n |-> 0, names |-> << >>, plan |-> EmptyMap, asked |-> << >>,
              outcome |-> "none"]

\* The resolution loop of install (lines 468-475) and no more: the plan, the
\* requests made and the outcome are kept in call.
ResolveCall ==
    /\ call.n < MaxResolves
    /\ \E pkg_names \in SeqsUpTo(Pkgs, MaxNames), net \in NetChoices :
          LET res == Resolve(pkg_names, dep_cache, metadata_cache, net, now)
          IN  /\ dep_cache' = res.memo
              /\ metadata_cache' = res.cache
              /\ call' = [n |-> call.n + 1, names |-> pkg_names,
                          plan |-> res.res_map, asked |-> res.asked,
                          outcome |-> IF res.err # None THEN "resolution_error"
                                      ELSE "resolved"]
    /\ UNCHANGED <<registry, deps, now, inventory_file, cellar, bin_dir, tarballs,
                   inventory, sha_memo, workers, pre, faults, saves>>

InitResolve ==
    /\ registry = [p \in Pkgs |-> 1]
    /\ deps \in AllGraphs
    /\ now = 0
    /\ metadata_cache = EmptyMap
    /\ inventory_file = EmptyMap
    /\ cellar = EmptyMap
    /\ bin_dir = EmptyMap
    /\ tarballs = EmptyMap
    /\ inventory = EmptyMap
    /\ dep_cache = EmptyMap
    /\ sha_memo = EmptyMap
    /\ workers = [p \in Pkgs |-> NoWorker]
    /\ call = NoResolve
    /\ pre = [inventory |-> EmptyMap, cellar |-> EmptyMap, bin_dir |-> EmptyMap,
              tarballs |-> EmptyMap]
    /\ faults = 0
    /\ saves = NoSaves

NextResolve == ResolveCall

SpecResolve == InitResolve /\ [][NextResolve]_vars

----------------------------------------------------------------------------
(* C19 *)

\* C19: on every dependency graph, cycles and self-dependencies included,
\* a resolve comes to an end, and no package's metadata is requested twice
\* within it; a package whose metadata was answered is in the plan and in
\* the session memo.
C19_ResolveAsksOnce ==
    /\ call.outcome \in {"none", "resolved", "resolution_error"}
    /\ \A i, j \in DOMAIN call.asked : i # j => call.asked[i] # call.asked[j]
    /\ call.outcome = "resolved" =>
          \A p \in Range(call.asked) :
             p \in DOMAIN call.plan /\ p \in DOMAIN dep_cache

\* A resolve of a from an empty memo has come to an end on a graph where a
\* and b depend on each other and c depends on itself and on a: each of the
\* three was requested.
C19_Witness ==
    /\ call.outcome = "resolved"
    /\ deps["a"] = <<"b", "c">>
    /\ deps["b"] = <<"a">>
    /\ deps["c"] = <<"c", "a">>
    /\ call.names = <<"a">>
    /\ Len(call.asked) = 3

----------------------------------------------------------------------------
(* SpecLink: install runs with the link loop of the workers taken one file   *)
(* system call at a time.                                                    *)

MaxLinkRuns == 2

\* The executable the link loop of p has come to; those before it are in
\* bin_links.
LinkDest(p) ==
    LET exes == ExesOf(cellar[FinalPkgDir(p, workers[p].version)])
    IN  IF Len(workers[p].links) < Len(exes)
        THEN Some(exes[Len(workers[p].links) + 1]) ELSE None

\* Line 606: link_dest.exists() or link_dest.is_symlink()
LinkCheck(p) ==
    /\ Pc(p) = "link"
    /\ workers' = [workers EXCEPT ![p].pc =
                      IF LinkDest(p) = None THEN "ok"
                      ELSE IF LinkDest(p)[1] \in DOMAIN bin_dir THEN "unlink"
                      ELSE "symlink"]
    /\ UNCHANGED <<registry, deps, now, metadata_cache, inventory_file, cellar,
                   bin_dir, tarballs, inventory, dep_cache, sha_memo, call, pre,
                   faults, saves>>

\* Line 607: link_dest.unlink(); FileNotFoundError when the entry is gone.
LinkUnlink(p) ==
    /\ Pc(p) = "unlink"
    /\ IF LinkDest(p)[1] \in DOMAIN bin_dir
       THEN /\ bin_dir' = Drop(bin_dir, {LinkDest(p)[1]})
            /\ workers' = [workers EXCEPT ![p].pc = "symlink"]
       ELSE /\ workers' = [workers EXCEPT ![p].pc = "raised", ![p].why = "link"]
            /\ UNCHANGED bin_dir
    /\ UNCHANGED <<registry, deps, now, metadata_cache, inventory_file, cellar,
                   tarballs, inventory, dep_cache, sha_memo, call, pre, faults,
                   saves>>

\* Lines 608-609: link_dest.symlink_to(exe), FileExistsError when there is
\* an entry; bin_links.append.
LinkSymlink(p) ==
    /\ Pc(p) = "symlink"
    /\ IF LinkDest(p)[1] \notin DOMAIN bin_dir
       THEN /\ bin_dir' = Put(bin_dir, LinkDest(p)[1],
                              <<p, workers[p].version, LinkDest(p)[1]>>)
            /\ workers' = [workers EXCEPT
                             ![p].pc = "link",
                             ![p].links = Append(@, LinkDest(p)[1])]
       ELSE /\ workers' = [workers EXCEPT ![p].pc = "raised", ![p].why = "link"]
            /\ UNCHANGED bin_dir
    /\ UNCHANGED <<registry, deps, now, metadata_cache, inventory_file, cellar,
                   tarballs, inventory, dep_cache, sha_memo, call, pre, faults,
                   saves>>

LinkRun ==
    /\ Idle
    /\ call.n < MaxLinkRuns
    /\ \E pkg_names \in SeqsUpTo(Pkgs, MaxRoots), force \in BOOLEAN,
          net \in NetChoices :
          InstallStart("install", pkg_names, force, metadata_cache, net)

NextLink ==
    \/ LinkRun
    \/ \E p \in Pkgs : WorkerRun(p)
    \/ \E p \in Pkgs : LinkCheck(p)
    \/ \E p \in Pkgs : LinkUnlink(p)
    \/ \E p \in Pkgs : LinkSymlink(p)
    \/ \E p \in Pkgs : Collect(p)

SpecLink == Init /\ [][NextLink]_vars

----------------------------------------------------------------------------
(* C20 *)

\* C20: no worker's link loop ends with an error, and when two packages of
\* one run that carry an executable of the same name are both installed,
\* bin/ has a link of that name to one of the two.
C20_LinkRaceWithoutError ==
    /\ \A p \in Pkgs : ~(Pc(p) = "raised" /\ workers[p].why = "link")
    /\ (Idle /\ call.outcome = "returned") =>
          \A p, q \in call.committed :
             \A s \in Range(Exes[p]) \cap Range(Exes[q]) :
                p # q => s \in DOMAIN bin_dir /\ bin_dir[s][1] \in {p, q}

----------------------------------------------------------------------------
(* C21 *)

\* C21: whenever a worker has had its tarball verified, the verifier said
\* "mismatch" exactly when the digest of the bytes the worker downloaded
\* differs from the digest its metadata expects.
C21_MemoizedVerifierEquivalent ==
    \A p \in Pkgs :
       workers[p].got # None =>
          ((Pc(p) = "raised" /\ workers[p].why = "sha256") <=> Mismatch(p))

----------------------------------------------------------------------------
(* SpecCacheRace: MetadataCache.get taken one SQL statement at a time, with  *)
(* set called on other connections in between.  In call: where the get is,   *)
(* the row its SELECT returned, the table and the time at that moment, the   *)
(* sets of the same key made since, and what the get returned.               *)

MaxRaceOps == 4

NoRace == [n |-> 0, ticks |-> 0, pc |-> "idle", name |-> "", row |-> None,
           before |-> EmptyMap, at |-> 0, sets |-> 0, got |-> None]

\* MetadataCache.set on another connection: one statement and its commit.
RaceSet ==
    /\ call.n < MaxRaceOps
    /\ \E name \in CacheNames, ttl \in TTLs :
          /\ metadata_cache' = CacheSet(metadata_cache, name,
                                        Metadata(name, registry[name]), now, ttl)
          /\ call' = [call EXCEPT
                        !.n = @ + 1,
                        !.sets = IF call.pc = "selected" /\ name = call.name
                                 THEN @ + 1 ELSE @]
    /\ UNCHANGED <<registry, deps, now, inventory_file, cellar, bin_dir, tarballs,
                   inventory, dep_cache, sha_memo, workers, pre, faults, saves>>

\* time.time() returns more than at the last call
RaceTick ==
    /\ call.pc = "idle"
    /\ call.ticks < MaxTicks
    /\ \E dt \in TickSteps : now' = now + dt
    /\ call' = [call EXCEPT !.ticks = @ + 1]
    /\ UNCHANGED <<registry, deps, metadata_cache, inventory_file, cellar, bin_dir,
                   tarballs, inventory, dep_cache, sha_memo, workers, pre, faults,
                   saves>>

\* Lines 96-105: the SELECT, fetchone() and the age of the row.
GetSelect ==
    /\ call.pc = "idle"
    /\ call.n < MaxRaceOps
    /\ \E name \in CacheNames :
          call' = [call EXCEPT
                     !.n = @ + 1, !.pc = "selected", !.name = name,
                     !.row = IF name \in DOMAIN metadata_cache
                             THEN Some(metadata_cache[name]) ELSE None,
                     !.before = metadata_cache, !.at = now, !.sets = 0,
                     !.got = None]
    /\ UNCHANGED <<registry, deps, now, metadata_cache, inventory_file, cellar,
                   bin_dir, tarballs, inventory, dep_cache, sha_memo, workers, pre,
                   faults, saves>>

\* Lines 101-114: the row's data when it is young enough; else the DELETE of
\* the key, its commit, and None.
GetFinish ==
    /\ call.pc = "selected"
    /\ IF call.row = None
       THEN /\ call' = [call EXCEPT !.pc = "idle", !.got = None]
            /\ UNCHANGED metadata_cache
       ELSE IF call.at - call.row[1].cached_at
                  < call.row[1].ttl_hours * SecondsPerHour
       THEN /\ call' = [call EXCEPT !.pc = "idle", !.got = Some(call.row[1].data)]
            /\ UNCHANGED metadata_cache
       ELSE /\ call' = [call EXCEPT !.pc = "idle", !.got = None]
            /\ metadata_cache' = CacheInvalidate(metadata_cache, call.name)
    /\ UNCHANGED <<registry, deps, now, inventory_file, cellar, bin_dir, tarballs,
                   inventory, dep_cache, sha_memo, workers, pre, faults, saves>>

InitCacheRace ==
    /\ registry = [p \in Pkgs |-> 1]
    /\ deps = MainGraph
    /\ now = 0
    /\ metadata_cache = EmptyMap
    /\ inventory_file = EmptyMap
    /\ cellar = EmptyMap
    /\ bin_dir = EmptyMap
    /\ tarballs = EmptyMap
    /\ inventory = EmptyMap
    /\ dep_cache = EmptyMap
    /\ sha_memo = EmptyMap
    /\ workers = [p \in Pkgs |-> NoWorker]
    /\ call = NoRace
    /\ pre = [inventory |-> EmptyMap, cellar |-> EmptyMap, bin_dir |-> EmptyMap,
              tarballs |-> EmptyMap]
    /\ faults = 0
    /\ saves = NoSaves

NextCacheRace ==
    \/ RaceSet
    \/ RaceTick
    \/ GetSelect
    \/ GetFinish

SpecCacheRace == InitCacheRace /\ [][NextCacheRace]_vars

----------------------------------------------------------------------------
(* C22 *)

\* The step with which the get returns.
GetReturns == call.pc = "selected" /\ call'.pc = "idle"

\* The get as if it ran whole after the sets made meanwhile.
GetAfterSets ==
    LET r == CacheGet(metadata_cache, call.name, now)
    IN  call'.got = r.data /\ metadata_cache' = r.cache

\* The get as if it ran whole before the sets made meanwhile.
GetBeforeSets ==
    LET r == CacheGet(call.before, call.name, call.at)
    IN  /\ call'.got = r.data
        /\ metadata_cache' = IF call.sets > 0 THEN metadata_cache ELSE r.cache

\* C22: a get that runs while the same key is set returns, and leaves the
\* table, as if it had run whole before or whole after the sets; a row that
\* is fresh when the get returns is not deleted by it.
C22_GetSetSerial ==
    [][GetReturns =>
          /\ GetAfterSets \/ GetBeforeSets
          /\ Fresh(metadata_cache, call.name, now) =>
                call.name \in DOMAIN metadata_cache']_vars

----------------------------------------------------------------------------
(* C23 *)

\* A step that makes one attempt of the fetch in progress.
Attempts ==
    call.op = "fetch" /\ call'.op = "fetch" /\ call'.n = call.n /\
    call'.attempts # call.attempts

\* C23: an attempt that is followed by another is followed first by a sleep
\* of RETRY_DELAY seconds, whatever it met; the attempt that ends the fetch
\* is followed by no sleep.
C23_DelayBeforeEachRetry ==
    [][Attempts =>
          IF call'.pending
          THEN call'.delay = RETRY_DELAY /\ now' = now + RETRY_DELAY
          ELSE call'.delay = 0 /\ now' = now]_vars

----------------------------------------------------------------------------
(* SpecDownload: install runs with the worker taken one request at a time:   *)
(* the metadata, the token request, each download attempt, verification and  *)
(* extraction.  A worker's record also counts its token requests and its     *)
(* download attempts and keeps the token and what the last attempt met.      *)

MaxDownloadRuns == 2

\* What one download attempt can meet: the bottle, other bytes, a stream
\* that breaks after the file was opened, a refusal before it was opened.
AttemptOutcomes == {"ok", "bad", "broken", "refused"}

\* Mutant of WriteStream: the file is opened for appending, and what it held
\* stays in front of the bytes of this attempt.
WriteStreamAppend(old, url, kind) ==
    IF old = None THEN Bottle(url[1], url[2], IF kind = "broken" THEN "partial" ELSE kind)
    ELSE Bottle(url[1], url[2], "mixed")

\* Lines 554-557: open(tmp_file, 'wb') and the chunks written; the file
\* holds the bytes of this attempt, all of them or those before the break.
WriteStream(old, url, kind) ==
    Bottle(url[1], url[2], IF kind = "broken" THEN "partial" ELSE kind)

\* Lines 524-532: the metadata and the bottle for the OS flavor.
WorkerMeta(p) ==
    /\ Pc(p) = "start"
    /\ \E meta \in {Answered, Unreachable} :
          LET m == GetApiData(metadata_cache, p, FALSE, meta, now)
          IN  /\ metadata_cache' = m.cache
              /\ workers' = [workers EXCEPT ![p] =
                    [pc       |-> IF m.data = None \/ BottleFor(m.data[1]) = None
                                  THEN "none" ELSE "token",
                     version  |-> workers[p].version,
                     data     |-> m.data,
                     got      |-> None,
                     links    |-> << >>,
                     why      |-> IF m.data = None THEN "no metadata"
                                  ELSE IF BottleFor(m.data[1]) = None
                                  THEN "no bottle" ELSE "",
                     tokens   |-> 0,
                     attempts |-> 0,
                     token    |-> "",
                     last     |-> ""]]
    /\ UNCHANGED <<registry, deps, now, inventory_file, cellar, bin_dir, tarballs,
                   inventory, dep_cache, sha_memo, call, pre, faults, saves>>

\* Lines 535-537: the token request, made once and not retried.
WorkerToken(p) ==
    /\ Pc(p) = "token"
    /\ \E token \in TokenOutcomes :
          workers' = [workers EXCEPT
                        ![p].tokens = @ + 1,
                        ![p].token = token,
                        ![p].pc = IF token = "error" THEN "raised" ELSE "download",
                        ![p].why = IF token = "error" THEN "token" ELSE ""]
    /\ UNCHANGED <<registry, deps, now, metadata_cache, inventory_file, cellar,
                   bin_dir, tarballs, inventory, dep_cache, sha_memo, call, pre,
                   faults, saves>>

\* Lines 542-564: one round of the download loop.
DownloadAttempt(p) ==
    /\ Pc(p) = "download"
    /\ \E kind \in IF workers[p].token = "missing" THEN {"refused"}
                   ELSE AttemptOutcomes :
          LET tmp_file == TmpFile(p, workers[p].version)
              bottle   == BottleFor(workers[p].data[1])[1]
              old      == IF tmp_file \in DOMAIN tarballs
                          THEN Some(tarballs[tmp_file]) ELSE None
              attempt  == workers[p].attempts + 1
          IN  /\ tarballs' = IF kind = "refused" THEN tarballs
                             ELSE Put(tarballs, tmp_file,
                                      WriteStream(old, bottle.url, kind))
              /\ workers' = [workers EXCEPT
                    ![p].attempts = attempt,
                    ![p].last = kind,
                    ![p].pc = IF kind \in {"ok", "bad"} THEN "verify"
                              ELSE IF attempt < RETRY_ATTEMPTS THEN "download"
                              ELSE "raised",
                    ![p].why = IF kind \notin {"ok", "bad"} /\
                                  attempt >= RETRY_ATTEMPTS
                               THEN "download" ELSE ""]
    /\ UNCHANGED <<registry, deps, now, metadata_cache, inventory_file, cellar,
                   bin_dir, inventory, dep_cache, sha_memo, call, pre, faults,
                   saves>>

\* Lines 566-594: verification, extraction, tmp_file.unlink().
WorkerVerify(p) ==
    /\ Pc(p) = "verify"
    /\ LET tmp_file == TmpFile(p, workers[p].version)
           bottle   == BottleFor(workers[p].data[1])[1]
           v        == VerifySha256(sha_memo, tmp_file, bottle.sha256, tarballs)
       IN  /\ sha_memo' = v.memo
           /\ tarballs' = Drop(tarballs, {tmp_file})
           /\ IF v.ok
              THEN /\ workers' = [workers EXCEPT
                         ![p].pc = "link", ![p].got = Some(tarballs[tmp_file])]
                   /\ cellar' = Put(cellar, FinalPkgDir(p, workers[p].version),
                                    tarballs[tmp_file])
              ELSE /\ workers' = [workers EXCEPT
                         ![p].pc = "raised", ![p].why = "sha256",
                         ![p].got = Some(tarballs[tmp_file])]
                   /\ UNCHANGED cellar
    /\ UNCHANGED <<registry, deps, now, metadata_cache, inventory_file, bin_dir,
                   inventory, dep_cache, call, pre, faults, saves>>

DownloadRun ==
    /\ Idle
    /\ call.n < MaxDownloadRuns
    /\ \E pkg_names \in SeqsUpTo(Pkgs, MaxRoots), force \in BOOLEAN,
          net \in NetChoices :
          InstallStart("install", pkg_names, force, metadata_cache, net)

NextDownload ==
    \/ DownloadRun
    \/ \E p \in Pkgs : WorkerMeta(p)
    \/ \E p \in Pkgs : WorkerToken(p)
    \/ \E p \in Pkgs : DownloadAttempt(p)
    \/ \E p \in Pkgs : WorkerVerify(p)
    \/ \E p \in Pkgs : WorkerLink(p)
    \/ \E p \in Pkgs : Collect(p)

SpecDownload == Init /\ [][NextDownload]_vars

----------------------------------------------------------------------------
(* C24 *)

\* The worker of p has got past its metadata.
Requesting(p) == Pc(p) \notin {"idle", "start", "none"}

\* The bytes the attempt the worker of p has just made streamed.
StreamOf(p) ==
    LET url == BottleFor(workers[p].data[1])[1].url
    IN  Bottle(url[1], url[2], workers[p].last)

\* The coordinator takes the result of a worker that raised.
TakesFailure(p) == Pc(p) = "raised" /\ workers'[p].pc # "raised"

\* C24: a worker asks for the token once, before its first download attempt,
\* and makes at most 3 attempts; after an attempt that went through, the
\* tarball holds the bytes of that attempt and nothing else; a worker fails
\* on the download only after its third attempt, and the coordinator writes
\* no inventory entry for a worker that failed.
C24_OneTokenThreeAttempts ==
    /\ [](\A p \in Pkgs :
            Requesting(p) =>
               /\ workers[p].tokens = IF Pc(p) = "token" THEN 0 ELSE 1
               /\ workers[p].attempts <= RETRY_ATTEMPTS
               /\ workers[p].tokens = 0 => workers[p].attempts = 0
               /\ Pc(p) = "download" => workers[p].attempts < RETRY_ATTEMPTS
               /\ Pc(p) = "verify" =>
                     /\ workers[p].last \in {"ok", "bad"}
                     /\ TmpFile(p, workers[p].version) \in DOMAIN tarballs
                     /\ tarballs[TmpFile(p, workers[p].version)] = StreamOf(p)
               /\ (Pc(p) = "raised" /\ workers[p].why = "download") =>
                     workers[p].attempts = RETRY_ATTEMPTS)
    /\ [][\A p \in Pkgs :
             TakesFailure(p) =>
                /\ p \notin call'.committed
                /\ UNCHANGED <<inventory, inventory_file>>]_vars

\* The worker of b is about to verify the bottle its third attempt brought,
\* and the worker of a has failed on its third attempt.
C24_Witness ==
    /\ Pc("b") = "verify"
    /\ workers["b"].attempts = 3
    /\ workers["b"].last = "ok"
    /\ workers["b"].tokens = 1
    /\ Pc("a") = "raised"
    /\ workers["a"].why = "download"
    /\ workers["a"].last = "broken"

----------------------------------------------------------------------------
(* C25 *)

\* An uninstall call that found a named package in the inventory and was not
\* declined.
UninstallGoes ==
    Begins("uninstall") /\ call'.outcome \notin {"not_found", "declined"}

\* Nothing of p is left: entry, listed symlinks, Cellar tree, cache row.
RemovedWhole(p) ==
    /\ p \notin DOMAIN inventory'
    /\ p \notin DOMAIN inventory_file'
    /\ \A s \in Range(inventory[p].symlinks) : s \notin DOMAIN bin_dir'
    /\ \A d \in DOMAIN cellar' : d[1] # p
    /\ p \notin DOMAIN metadata_cache'

\* C25: an uninstall that goes ahead, whatever list of names it was given,
\* ends without raising; every named package that was in the inventory is
\* removed whole, and the other entries are as they were.
C25_UninstallAnyList ==
    [][UninstallGoes =>
          /\ call'.outcome = "uninstalled"
          /\ \A p \in Range(call'.names) \cap DOMAIN inventory : RemovedWhole(p)
          /\ \A q \in DOMAIN inventory \ Range(call'.names) :
                q \in DOMAIN inventory' /\ inventory'[q] = inventory[q]]_vars

----------------------------------------------------------------------------
(* SpecTwoProcs: two br processes installing at the same time.  Each has its *)
(* own self.inventory, in saves.proc; inventory.json, read as JSON, is       *)
(* inventory_file.  A save is taken whole here: the saves of the runs        *)
(* below do not overlap, so that what SpecSave shows of overlapping saves    *)
(* plays no part.                                                            *)

NoProc == [pc |-> "new", inventory |-> EmptyMap, loaded |-> EmptyMap,
           todo |-> {}, committed |-> {}]

ProcPc(p) == saves.proc[p].pc

\* The entry the coordinator writes for pkg (lines 512-516).
EntryFor(pkg) ==
    [version  |-> registry[pkg],
     path     |-> FinalPkgDir(pkg, registry[pkg]),
     symlinks |-> Exes[pkg]]

\* Brewery.__init__, lines 174-181: self.inventory = json.load(f)
ProcLoad(p) ==
    /\ ProcPc(p) = "new"
    /\ saves' = [saves EXCEPT !.proc[p] =
                    [NoProc EXCEPT !.pc = "loaded",
                                   !.inventory = inventory_file,
                                   !.loaded = inventory_file]]
    /\ UNCHANGED <<registry, deps, now, metadata_cache, inventory_file, cellar,
                   bin_dir, tarballs, inventory, dep_cache, sha_memo, workers, call,
                   pre, faults>>

\* install up to the submission of the workers: to_fetch are packages that
\* are not in this process's inventory and that the other process is not
\* installing.
ProcInstall(p) ==
    /\ ProcPc(p) = "loaded"
    /\ \E to_fetch \in SUBSET Pkgs :
          /\ to_fetch # {}
          /\ to_fetch \cap DOMAIN saves.proc[p].inventory = {}
          /\ \A q \in Procs \ {p} :
                to_fetch \cap (saves.proc[q].todo \cup saves.proc[q].committed) = {}
          /\ saves' = [saves EXCEPT !.proc[p].pc = "running",
                                    !.proc[p].todo = to_fetch]
    /\ UNCHANGED <<registry, deps, now, metadata_cache, inventory_file, cellar,
                   bin_dir, tarballs, inventory, dep_cache, sha_memo, workers, call,
                   pre, faults>>

\* Lines 509-517: a worker's result is put into self.inventory and the
\* inventory is saved; a worker that failed or skipped leaves both alone.
ProcCollect(p) ==
    /\ ProcPc(p) = "running"
    /\ \E pkg \in saves.proc[p].todo, res \in BOOLEAN :
          LET me   == saves.proc[p]
              inv  == IF res THEN Put(me.inventory, pkg, EntryFor(pkg))
                      ELSE me.inventory
              left == me.todo \ {pkg}
          IN  /\ res => HasBottle(pkg, registry[pkg])
              /\ saves' = [saves EXCEPT
                             !.proc[p].inventory = inv,
                             !.proc[p].todo = left,
                             !.proc[p].committed = IF res THEN @ \cup {pkg} ELSE @,
                             !.proc[p].pc = IF left = {} THEN "done" ELSE "running"]
              /\ inventory_file' = IF res THEN inv ELSE inventory_file
    /\ UNCHANGED <<registry, deps, now, metadata_cache, cellar, bin_dir, tarballs,
                   inventory, dep_cache, sha_memo, workers, call, pre, faults>>

InitTwoProcs ==
    /\ registry = [p \in Pkgs |-> 1]
    /\ deps = MainGraph
    /\ now = 0
    /\ metadata_cache = EmptyMap
    /\ inventory_file = EmptyMap
    /\ cellar = EmptyMap
    /\ bin_dir = EmptyMap
    /\ tarballs = EmptyMap
    /\ inventory = EmptyMap
    /\ dep_cache = EmptyMap
    /\ sha_memo = EmptyMap
    /\ workers = [p \in Pkgs |-> NoWorker]
    /\ call = NoCall
    /\ pre = [inventory |-> EmptyMap, cellar |-> EmptyMap, bin_dir |-> EmptyMap,
              tarballs |-> EmptyMap]
    /\ faults = 0
    /\ saves = [file |-> << >>, lock |-> None, proc |-> [p \in Procs |-> NoProc]]

NextTwoProcs ==
    \/ \E p \in Procs : ProcLoad(p)
    \/ \E p \in Procs : ProcInstall(p)
    \/ \E p \in Procs : ProcCollect(p)

SpecTwoProcs == InitTwoProcs /\ [][NextTwoProcs]_vars

----------------------------------------------------------------------------
(* C26 *)

\* C26: when two processes that loaded the same inventory.json have both
\* finished installing, inventory.json has the entry of every package that
\* either of them committed.
C26_NoEntryLost ==
    ((\A p \in Procs : ProcPc(p) = "done") /\
     (\A p, q \in Procs : saves.proc[p].loaded = saves.proc[q].loaded)) =>
        \A p \in Procs :
           \A pkg \in saves.proc[p].committed :
              /\ pkg \in DOMAIN inventory_file
              /\ inventory_file[pkg] = EntryFor(pkg)

====
